---- MODULE Spec2Model ----
(***************************************************************************)
(* Shell command generation of mara_db/shell.py.                           *)
(*                                                                         *)
(* The module under study is a family of pure functions from a database    *)
(* descriptor (or an alias of one) and formatting options to the text of a *)
(* shell command.  Commands are modelled as TLA+ strings, character for    *)
(* character as the Python code concatenates them.  An optional Python     *)
(* value is a tuple: << >> for None, <<v>> for the value v.                *)
(***************************************************************************)
EXTENDS Integers, Sequences, FiniteSets, TLC

VARIABLES pc, call, result, run

vars == <<pc, call, result, run>>

-----------------------------------------------------------------------------
(* Python values *)

None == << >>

Some(v) == <<v>>

\* Python truthiness of an optional str: None and '' are false
Truthy(x) == x # None /\ x[1] # ""

\* Python truthiness of an optional int: None and 0 are false
TruthyInt(x) == x # None /\ x[1] # 0

\* a returned value, or a raised exception: an error names the exception and,
\* for NotImplementedError, the function whose base implementation raised it
Ok(s) == [ok |-> TRUE, value |-> s]

Raise(e) == [ok |-> FALSE, error |-> e]

-----------------------------------------------------------------------------
(* Text helpers used to state properties of the generated commands *)

Contains(s, p) ==
    \E i \in 1..(Len(s) - Len(p) + 1) : SubSeq(s, i, i + Len(p) - 1) = p

StartsWith(s, p) == Len(p) <= Len(s) /\ SubSeq(s, 1, Len(p)) = p

EndsWith(s, p) ==
    Len(p) <= Len(s) /\ SubSeq(s, Len(s) - Len(p) + 1, Len(s)) = p

-----------------------------------------------------------------------------
(* The configuration collaborator: mara_db.config and mara_db.dbs *)

\* config.default_timezone()
default_timezone == "Europe/Berlin"

PostgreSQLDB(user, password, host, port, database) ==
    [kind |-> "PostgreSQLDB", user |-> user, password |-> password,
     host |-> host, port |-> port, database |-> database]

MysqlDB(user, password, host, port, database, ssl) ==
    [kind |-> "MysqlDB", user |-> user, password |-> password,
     host |-> host, port |-> port, database |-> database, ssl |-> ssl]

SQLServerDB(user, password, host, database) ==
    [kind |-> "SQLServerDB", user |-> user, password |-> password,
     host |-> host, database |-> database]

SQLiteDB(file_name) == [kind |-> "SQLiteDB", file_name |-> file_name]

\* an alias passed where a descriptor is expected: a Python str
Alias(name) == [kind |-> "str", alias |-> name]

\* the registry behind dbs.db(alias)
Registry ==
    [mara   |-> PostgreSQLDB(Some("root"), None, Some("localhost"), None, Some("mara")),
     dwh    |-> PostgreSQLDB(None, None, None, None, Some("dwh")),
     shop   |-> MysqlDB(Some("root"), Some("pw"), Some("localhost"), Some(3306), Some("shop"), FALSE),
     erp    |-> SQLServerDB(Some("sa"), Some("pw"), Some("erp-host"), Some("erp")),
     local  |-> SQLiteDB("local.sqlite")]

AliasNames == {"mara", "dwh", "shop", "erp", "local", "unknown"}

\* dbs.db(alias): the descriptor, or the lookup's exception
db(alias) ==
    IF alias \in DOMAIN Registry THEN Ok(Registry[alias]) ELSE Raise("AliasNotFound")

-----------------------------------------------------------------------------
(* shlex.quote *)

SafeChars ==
    {"a","b","c","d","e","f","g","h","i","j","k","l","m","n","o","p","q","r",
     "s","t","u","v","w","x","y","z","A","B","C","D","E","F","G","H","I","J",
     "K","L","M","N","O","P","Q","R","S","T","U","V","W","X","Y","Z","0","1",
     "2","3","4","5","6","7","8","9","_","@","%","+","=",":",",",".","/","-"}

RECURSIVE ReplaceQuotes(_)
\* s.replace("'", "'\"'\"'")
ReplaceQuotes(s) ==
    IF s = "" THEN ""
    ELSE (IF Head(s) = "'" THEN "'\"'\"'" ELSE Head(s)) \o ReplaceQuotes(Tail(s))

shlex_quote(s) ==
    IF s = "" THEN "''"
    ELSE IF \A i \in 1..Len(s) : SubSeq(s, i, i) \in SafeChars THEN s
    ELSE "'" \o ReplaceQuotes(s) \o "'"

-----------------------------------------------------------------------------
(* query_command *)

\* query_command_PostgreSQLDB with `if db.password is not None` for the password
query_command_PostgreSQLDB_not_none(d, timezone, echo_queries) ==
    Ok("PGTZ=" \o (IF Truthy(timezone) THEN timezone[1] ELSE default_timezone) \o " "
       \o (IF d.password # None THEN "PGPASSWORD=" \o d.password[1] \o " " ELSE "")
       \o "PGOPTIONS=--client-min-messages=warning psql"
       \o (IF Truthy(d.user) THEN " --username=" \o d.user[1] ELSE "")
       \o (IF Truthy(d.host) THEN " --host=" \o d.host[1] ELSE "")
       \o (IF TruthyInt(d.port) THEN " --port=" \o ToString(d.port[1]) ELSE "")
       \o (IF echo_queries THEN " --echo-all" ELSE " ")
       \o " --no-psqlrc --set ON_ERROR_STOP=on "
       \o (IF Truthy(d.database) THEN d.database[1] ELSE ""))

query_command_PostgreSQLDB(d, timezone, echo_queries) ==
    Ok("PGTZ=" \o (IF Truthy(timezone) THEN timezone[1] ELSE default_timezone) \o " "
       \o (IF Truthy(d.password) THEN "PGPASSWORD=" \o d.password[1] \o " " ELSE "")
       \o "PGOPTIONS=--client-min-messages=warning psql"
       \o (IF Truthy(d.user) THEN " --username=" \o d.user[1] ELSE "")
       \o (IF Truthy(d.host) THEN " --host=" \o d.host[1] ELSE "")
       \o (IF TruthyInt(d.port) THEN " --port=" \o ToString(d.port[1]) ELSE "")
       \o (IF echo_queries THEN " --echo-all" ELSE " ")
       \o " --no-psqlrc --set ON_ERROR_STOP=on "
       \o (IF Truthy(d.database) THEN d.database[1] ELSE ""))

query_command_MysqlDB(d, timezone, echo_queries) ==
    Ok((IF Truthy(d.password) THEN "MYSQL_PWD='" \o d.password[1] \o "' " ELSE "")
       \o "mysql "
       \o (IF Truthy(d.user) THEN " --user=" \o d.user[1] ELSE "")
       \o (IF Truthy(d.host) THEN " --host=" \o d.host[1] ELSE "")
       \o (IF TruthyInt(d.port) THEN " --port=" \o ToString(d.port[1]) ELSE "")
       \o (IF d.ssl THEN " --ssl" ELSE "")
       \o (IF Truthy(d.database) THEN " " \o d.database[1] ELSE ""))

query_command_SQLServerDB(d, timezone, echo_queries) ==
    Ok("sed 's/\\\\\\\\$/\\$/g;s/\\$/\\\\\\\\$/g' | "
       \o "(cat && echo ';') \\\n  | "
       \o "(cat && echo ';\n\\go') \\\n  | "
       \o "sqsh "
       \o (IF Truthy(d.user) THEN " -U " \o d.user[1] ELSE "")
       \o (IF Truthy(d.password) THEN " -P " \o d.password[1] ELSE "")
       \o (IF Truthy(d.host) THEN " -S " \o d.host[1] ELSE "")
       \o (IF Truthy(d.database) THEN " -D " \o d.database[1] ELSE ""))

\* query_command_SQLiteDB with && and || of the existence test exchanged
query_command_SQLiteDB_swapped(d, timezone, echo_queries) ==
    LET file_name == shlex_quote(d.file_name)
    IN  Ok("(test -f " \o file_name \o " || cat && >&2 echo " \o file_name
           \o " not found) \\\n"
           \o "  | sqlite3 -bail " \o shlex_quote(d.file_name))

query_command_SQLiteDB(d, timezone, echo_queries) ==
    LET file_name == shlex_quote(d.file_name)
    IN  Ok("(test -f " \o file_name \o " && cat || >&2 echo " \o file_name
           \o " not found) \\\n"
           \o "  | sqlite3 -bail " \o shlex_quote(d.file_name))

\* the handler singledispatch selects for a resolved descriptor
query_command_DB(d, timezone, echo_queries) ==
    CASE d.kind = "PostgreSQLDB" -> query_command_PostgreSQLDB(d, timezone, echo_queries)
      [] d.kind = "MysqlDB" -> query_command_MysqlDB(d, timezone, echo_queries)
      [] d.kind = "SQLServerDB" -> query_command_SQLServerDB(d, timezone, echo_queries)
      [] d.kind = "SQLiteDB" -> query_command_SQLiteDB(d, timezone, echo_queries)
      [] OTHER -> Raise("NotImplementedError: query_command")

\* functools.singledispatch: a str is an alias, resolved and dispatched again
query_command(d, timezone, echo_queries) ==
    IF d.kind = "str"
    THEN LET r == db(d.alias)
         IN  IF ~r.ok THEN r ELSE query_command_DB(r.value, timezone, echo_queries)
    ELSE query_command_DB(d, timezone, echo_queries)

-----------------------------------------------------------------------------
(* copy_to_stdout_command *)

copy_to_stdout_command_PostgreSQLDB(d) ==
    LET q == query_command(d, None, FALSE)
    IN  IF ~q.ok THEN q
        ELSE Ok(q.value \o " --tuples-only --no-align --field-separator='\t' \\\n"
                \o "  | sed '/^$/d'")

copy_to_stdout_command_MysqlDB(d) ==
    LET q == query_command(d, None, TRUE)
    IN  IF ~q.ok THEN q ELSE Ok(q.value \o " --skip-column-names")

copy_to_stdout_command_SQLServerDB(d) ==
    LET q == query_command(d, None, TRUE)
    IN  IF ~q.ok THEN q ELSE Ok(q.value \o " -m csv")

copy_to_stdout_command_SQLiteDB(d) ==
    LET q == query_command(d, None, TRUE)
    IN  IF ~q.ok THEN q ELSE Ok(q.value \o " -noheader -separator '\t' -quote")

\* the handler singledispatch selects for a resolved descriptor
copy_to_stdout_command_DB(d) ==
    CASE d.kind = "PostgreSQLDB" -> copy_to_stdout_command_PostgreSQLDB(d)
      [] d.kind = "MysqlDB" -> copy_to_stdout_command_MysqlDB(d)
      [] d.kind = "SQLServerDB" -> copy_to_stdout_command_SQLServerDB(d)
      [] d.kind = "SQLiteDB" -> copy_to_stdout_command_SQLiteDB(d)
      [] OTHER -> Raise("NotImplementedError: copy_to_stdout_command")

copy_to_stdout_command(d) ==
    IF d.kind = "str"
    THEN LET r == db(d.alias)
         IN  IF ~r.ok THEN r ELSE copy_to_stdout_command_DB(r.value)
    ELSE copy_to_stdout_command_DB(d)

-----------------------------------------------------------------------------
(* copy_from_stdin_command *)

\* copy_sql with `if null_value_string:` in place of `!= None`
copy_sql_truthy_null(target_table, csv_format, skip_header, delimiter_char, quote_char, null_value_string) ==
    "COPY " \o target_table \o " FROM STDIN WITH"
    \o (IF csv_format THEN " CSV" ELSE "")
    \o (IF skip_header THEN " HEADER" ELSE "")
    \o (IF delimiter_char # None THEN " DELIMITER AS '" \o delimiter_char[1] \o "'" ELSE "")
    \o (IF Truthy(null_value_string) THEN " NULL AS '" \o null_value_string[1] \o "'" ELSE "")
    \o (IF quote_char # None THEN " QUOTE AS '" \o quote_char[1] \o "'" ELSE "")

\* the SQL statement of the PostgreSQL handler
copy_sql(target_table, csv_format, skip_header, delimiter_char, quote_char, null_value_string) ==
    "COPY " \o target_table \o " FROM STDIN WITH"
    \o (IF csv_format THEN " CSV" ELSE "")
    \o (IF skip_header THEN " HEADER" ELSE "")
    \o (IF delimiter_char # None THEN " DELIMITER AS '" \o delimiter_char[1] \o "'" ELSE "")
    \o (IF null_value_string # None THEN " NULL AS '" \o null_value_string[1] \o "'" ELSE "")
    \o (IF quote_char # None THEN " QUOTE AS '" \o quote_char[1] \o "'" ELSE "")

copy_from_stdin_command_PostgreSQLDB(d, target_table, csv_format, skip_header, delimiter_char, quote_char, null_value_string, timezone) ==
    LET sql == copy_sql(target_table, csv_format, skip_header, delimiter_char,
                        quote_char, null_value_string)
        q   == query_command(d, timezone, TRUE)
    IN  IF ~q.ok THEN q
        ELSE Ok(q.value \o " \\\n      --command=\"" \o sql \o "\"")

\* copy_from_stdin_command with the PostgreSQL handler registered for dbs.DB
copy_from_stdin_command_DB_any(d, target_table, csv_format, skip_header, delimiter_char, quote_char, null_value_string, timezone) ==
    copy_from_stdin_command_PostgreSQLDB(d, target_table, csv_format,
        skip_header, delimiter_char, quote_char, null_value_string, timezone)

\* the handler singledispatch selects for a resolved descriptor
copy_from_stdin_command_DB(d, target_table, csv_format, skip_header, delimiter_char, quote_char, null_value_string, timezone) ==
    IF d.kind = "PostgreSQLDB"
    THEN copy_from_stdin_command_PostgreSQLDB(d, target_table, csv_format,
             skip_header, delimiter_char, quote_char, null_value_string, timezone)
    ELSE Raise("NotImplementedError: copy_from_stdin_command")

copy_from_stdin_command(d, target_table, csv_format, skip_header, delimiter_char, quote_char, null_value_string, timezone) ==
    IF d.kind = "str"
    THEN LET r == db(d.alias)
         IN  IF ~r.ok THEN r
             ELSE copy_from_stdin_command_DB(r.value, target_table, csv_format,
                      skip_header, delimiter_char, quote_char, null_value_string,
                      timezone)
    ELSE copy_from_stdin_command_DB(d, target_table, csv_format, skip_header,
             delimiter_char, quote_char, null_value_string, timezone)

-----------------------------------------------------------------------------
(* copy_command *)

\* stdout-copy of the source piped into stdin-load of the target
Pipe(dump, load) ==
    IF ~dump.ok THEN dump
    ELSE IF ~load.ok THEN load
    ELSE Ok(dump.value \o " \\\n" \o "  | " \o load.value)

\* the (PostgreSQLDB, PostgreSQLDB) handler not passing timezone on
copy_command_PostgreSQLDB_PostgreSQLDB_no_timezone(source_db, target_db, target_table, timezone) ==
    Pipe(copy_to_stdout_command(source_db),
         copy_from_stdin_command(target_db, target_table, FALSE, FALSE, None, None,
                                 Some(""), None))

copy_command_PostgreSQLDB_PostgreSQLDB(source_db, target_db, target_table, timezone) ==
    Pipe(copy_to_stdout_command(source_db),
         copy_from_stdin_command(target_db, target_table, FALSE, FALSE, None, None,
                                 Some(""), timezone))

copy_command_MysqlDB_PostgreSQLDB(source_db, target_db, target_table, timezone) ==
    Pipe(copy_to_stdout_command(source_db),
         copy_from_stdin_command(target_db, target_table, FALSE, FALSE, None, None,
                                 Some("NULL"), timezone))

\* the (SQLServerDB, PostgreSQLDB) handler without skip_header=True
copy_command_SQLServerDB_PostgreSQLDB_no_header(source_db, target_db, target_table, timezone) ==
    Pipe(copy_to_stdout_command(source_db),
         copy_from_stdin_command(target_db, target_table, TRUE, FALSE, None, None,
                                 None, timezone))

copy_command_SQLServerDB_PostgreSQLDB(source_db, target_db, target_table, timezone) ==
    Pipe(copy_to_stdout_command(source_db),
         copy_from_stdin_command(target_db, target_table, TRUE, TRUE, None, None,
                                 None, timezone))

copy_command_SQLiteDB_PostgreSQLDB(source_db, target_db, target_table, timezone) ==
    Pipe(copy_to_stdout_command(source_db),
         copy_from_stdin_command(target_db, target_table, TRUE, FALSE, None,
                                 Some("''"), Some("NULL"), timezone))

\* the pairs of descriptor classes copy_command is registered for
RegisteredPairs ==
    {<<"PostgreSQLDB", "PostgreSQLDB">>, <<"MysqlDB", "PostgreSQLDB">>,
     <<"SQLServerDB", "PostgreSQLDB">>, <<"SQLiteDB", "PostgreSQLDB">>}

\* copy_command with its handlers registered for (source class, dbs.DB)
copy_command_DB_DB_by_source(source_db, target_db, target_table, timezone) ==
    CASE source_db.kind = "PostgreSQLDB" ->
             copy_command_PostgreSQLDB_PostgreSQLDB(source_db, target_db, target_table, timezone)
      [] source_db.kind = "MysqlDB" ->
             copy_command_MysqlDB_PostgreSQLDB(source_db, target_db, target_table, timezone)
      [] source_db.kind = "SQLServerDB" ->
             copy_command_SQLServerDB_PostgreSQLDB(source_db, target_db, target_table, timezone)
      [] source_db.kind = "SQLiteDB" ->
             copy_command_SQLiteDB_PostgreSQLDB(source_db, target_db, target_table, timezone)
      [] OTHER -> Raise("NotImplementedError: copy_command")

\* dispatch on two resolved descriptors; the base function raises
copy_command_DB_DB(source_db, target_db, target_table, timezone) ==
    IF <<source_db.kind, target_db.kind>> \notin RegisteredPairs
    THEN Raise("NotImplementedError: copy_command")
    ELSE CASE source_db.kind = "PostgreSQLDB" ->
                  copy_command_PostgreSQLDB_PostgreSQLDB(source_db, target_db, target_table, timezone)
           [] source_db.kind = "MysqlDB" ->
                  copy_command_MysqlDB_PostgreSQLDB(source_db, target_db, target_table, timezone)
           [] source_db.kind = "SQLServerDB" ->
                  copy_command_SQLServerDB_PostgreSQLDB(source_db, target_db, target_table, timezone)
           [] source_db.kind = "SQLiteDB" ->
                  copy_command_SQLiteDB_PostgreSQLDB(source_db, target_db, target_table, timezone)

\* registered for (str, str): both aliases are resolved
copy_command_str_str(source_db_alias, target_db_alias, target_table, timezone) ==
    LET s == db(source_db_alias.alias)
        t == db(target_db_alias.alias)
    IN  IF ~s.ok THEN s
        ELSE IF ~t.ok THEN t
        ELSE copy_command_DB_DB(s.value, t.value, target_table, timezone)

\* registered for (dbs.DB, str): the target alias is resolved
copy_command_DB_str(source_db, target_db_alias, target_table, timezone) ==
    LET t == db(target_db_alias.alias)
    IN  IF ~t.ok THEN t
        ELSE copy_command_DB_DB(source_db, t.value, target_table, timezone)

\* multidispatch on the classes of the first two arguments; nothing is
\* registered for (str, dbs.DB), which falls to the base function
copy_command(source_db, target_db, target_table, timezone) ==
    CASE source_db.kind = "str" /\ target_db.kind = "str" ->
            copy_command_str_str(source_db, target_db, target_table, timezone)
      [] source_db.kind # "str" /\ target_db.kind = "str" ->
            copy_command_DB_str(source_db, target_db, target_table, timezone)
      [] source_db.kind = "str" /\ target_db.kind # "str" ->
            Raise("NotImplementedError: copy_command")
      [] OTHER -> copy_command_DB_DB(source_db, target_db, target_table, timezone)

-----------------------------------------------------------------------------
(* The POSIX shell that the caller runs a generated command in: how the     *)
(* command text splits into words and operators, and which simple commands  *)
(* of a pipeline are started.                                               *)

Word(w) == [op |-> FALSE, v |-> w]

Op(o) == [op |-> TRUE, v |-> o]

Blank == {" ", "\t"}

Op2 == {"&&", "||", ">&"}

Op1 == {"|", "&", ";", "(", ")", "<", ">", "\n"}

\* the lexer's state before any character: no word in progress (inword),
\* no quoting in force (mode "none"; "sq" in single, "dq" in double quotes),
\* no backslash (esc) and no operator character (pend) awaiting the next one
LexStart ==
    [mode |-> "none", cur |-> "", inword |-> FALSE, esc |-> FALSE, pend |-> "",
     acc |-> << >>]

\* the tokens so far, the word in progress ended
Flush(st) == IF st.inword THEN Append(st.acc, Word(st.cur)) ELSE st.acc

\* one character outside quotes, no operator character pending
LexPlain(st, c) ==
    IF st.esc
    THEN IF c = "\n" THEN [st EXCEPT !.esc = FALSE]
         ELSE [st EXCEPT !.esc = FALSE, !.cur = st.cur \o c, !.inword = TRUE]
    ELSE IF c = "\\" THEN [st EXCEPT !.esc = TRUE]
    ELSE IF c = "'" THEN [st EXCEPT !.mode = "sq", !.inword = TRUE]
    ELSE IF c = "\"" THEN [st EXCEPT !.mode = "dq", !.inword = TRUE]
    ELSE IF c \in Blank
         THEN [st EXCEPT !.acc = Flush(st), !.cur = "", !.inword = FALSE]
    ELSE IF c \in {"&", "|", ">"}
         THEN [st EXCEPT !.acc = Flush(st), !.cur = "", !.inword = FALSE, !.pend = c]
    ELSE IF c \in Op1
         THEN [st EXCEPT !.acc = Append(Flush(st), Op(c)), !.cur = "", !.inword = FALSE]
    ELSE [st EXCEPT !.cur = st.cur \o c, !.inword = TRUE]

\* one character
LexStep(st, c) ==
    CASE st.mode = "sq" ->
            IF c = "'" THEN [st EXCEPT !.mode = "none"]
            ELSE [st EXCEPT !.cur = st.cur \o c]
      [] st.mode = "dq" ->
            IF st.esc
            THEN [st EXCEPT !.esc = FALSE,
                            !.cur = st.cur \o (IF c \in {"\\", "\"", "$"} THEN c
                                               ELSE "\\" \o c)]
            ELSE IF c = "\\" THEN [st EXCEPT !.esc = TRUE]
            ELSE IF c = "\"" THEN [st EXCEPT !.mode = "none"]
            ELSE [st EXCEPT !.cur = st.cur \o c]
      [] OTHER ->
            IF st.pend = "" THEN LexPlain(st, c)
            ELSE IF (st.pend \o c) \in Op2
                 THEN [st EXCEPT !.acc = Append(st.acc, Op(st.pend \o c)), !.pend = ""]
            ELSE LexPlain([st EXCEPT !.acc = Append(st.acc, Op(st.pend)), !.pend = ""], c)

RECURSIVE Lex(_, _, _, _)
\* the lexer's state after the characters lo..hi of s, from state st: the
\* first half's state (l) is what the second half starts from
Lex(s, lo, hi, st) ==
    IF lo > hi THEN st
    ELSE IF lo = hi THEN LexStep(st, SubSeq(s, lo, lo))
    ELSE LET mid == (lo + hi) \div 2
         IN  CHOOSE r \in {Lex(s, mid + 1, hi, l) : l \in {Lex(s, lo, mid, st)}} : TRUE

\* the tokens of command text s; open when a quote is left unclosed
ShellTokens(s) ==
    LET st == Lex(s, 1, Len(s), LexStart)
    IN  [tokens |-> Flush(IF st.pend = "" THEN st
                          ELSE [st EXCEPT !.acc = Append(st.acc, Op(st.pend))]),
         open |-> st.mode # "none"]

RECURSIVE SplitAt(_, _, _, _, _, _)
\* toks split at the operators in seps that are outside parentheses:
\* <<the parts, the separators between them>>
SplitAt(toks, seps, i, depth, cur, acc) ==
    IF i > Len(toks) THEN <<Append(acc[1], cur), acc[2]>>
    ELSE LET t == toks[i]
         IN  IF t.op /\ depth = 0 /\ t.v \in seps
             THEN SplitAt(toks, seps, i + 1, depth, << >>,
                          <<Append(acc[1], cur), Append(acc[2], t.v)>>)
             ELSE SplitAt(toks, seps, i + 1,
                          IF t.op /\ t.v = "(" THEN depth + 1
                          ELSE IF t.op /\ t.v = ")" THEN depth - 1 ELSE depth,
                          Append(cur, t), acc)

\* the stages of a pipeline
Stages(toks) == SplitAt(toks, {"|"}, 1, 0, << >>, << << >>, << >> >>)[1]

\* a stage in parentheses is a subshell running the list inside them
Body(stage) ==
    IF Len(stage) >= 2 /\ stage[1] = Op("(") /\ stage[Len(stage)] = Op(")")
    THEN SubSeq(stage, 2, Len(stage) - 1)
    ELSE stage

RECURSIVE Argv(_, _)
\* the words of a simple command, redirections (>& n) left out
Argv(toks, i) ==
    IF i > Len(toks) THEN << >>
    ELSE IF toks[i].op THEN Argv(toks, i + 2)
    ELSE <<toks[i].v>> \o Argv(toks, i + 1)

SimpleCommand(toks) ==
    [argv |-> Argv(toks, 1),
     stderr |-> \E k \in 1..(Len(toks) - 1) : toks[k] = Op(">&") /\ toks[k + 1] = Word("2")]

\* exit status of a simple command: test -f succeeds iff the file exists
Status(cmd, files) ==
    IF Len(cmd.argv) = 3 /\ cmd.argv[1] = "test" /\ cmd.argv[2] = "-f"
    THEN cmd.argv[3] \in files
    ELSE TRUE

RECURSIVE RunList(_, _, _, _, _, _)
\* an and-or list, left to right: the simple commands it starts
RunList(cmds, conns, files, k, status, invoked) ==
    IF k > Len(cmds) THEN invoked
    ELSE LET c    == SimpleCommand(cmds[k])
             runs == \/ k = 1
                     \/ conns[k - 1] = "&&" /\ status
                     \/ conns[k - 1] = "||" /\ ~status
         IN  IF runs
             THEN RunList(cmds, conns, files, k + 1, Status(c, files), Append(invoked, c))
             ELSE RunList(cmds, conns, files, k + 1, status, invoked)

RunStage(stage, files) ==
    LET l == SplitAt(Body(stage), {"&&", "||"}, 1, 0, << >>, << << >>, << >> >>)
    IN  RunList(l[1], l[2], files, 1, TRUE, << >>)

RECURSIVE RunPipeline(_, _, _)
\* every stage of a pipeline is started, whatever the other stages do
RunPipeline(stages, files, k) ==
    IF k > Len(stages) THEN << >>
    ELSE RunStage(stages[k], files) \o RunPipeline(stages, files, k + 1)

\* running command text s where exactly the files in `files` exist
Execute(s, files) ==
    LET lx == ShellTokens(s)
    IN  [ran |-> TRUE, files |-> files, syntax_error |-> lx.open,
         invoked |-> IF lx.open THEN << >>
                     ELSE RunPipeline(Stages(lx.tokens), files, 1)]

-----------------------------------------------------------------------------
(* Inputs *)

Users == {None, Some("root"), Some("my user")}

Passwords == {None, Some(""), Some("secret"), Some("p'w")}

Hosts == {None, Some("localhost"), Some("a b")}

\* the largest of the small port numbers tried, next to the usual 5432
MaxPort == 1

Ports == {None, Some(5432)} \cup {Some(p) : p \in 0..MaxPort}

Databases == {None, Some(""), Some("test")}

FileNames == {"missing.db", "my data.db", "it's.db"}

\* the files that may exist when a command is run
Files == FileNames \cup {Registry.local.file_name}

PostgreSQLDBs ==
    {PostgreSQLDB(u, p, h, po, d) :
        u \in Users, p \in Passwords, h \in Hosts, po \in Ports, d \in Databases}

MysqlDBs ==
    {MysqlDB(u, p, h, po, d, s) :
        u \in Users, p \in Passwords, h \in Hosts, po \in Ports, d \in Databases,
        s \in BOOLEAN}

SQLServerDBs ==
    {SQLServerDB(u, p, h, d) :
        u \in Users, p \in Passwords, h \in Hosts, d \in Databases}

SQLiteDBs == {SQLiteDB(f) : f \in FileNames}

Descriptors == PostgreSQLDBs \cup MysqlDBs \cup SQLServerDBs \cup SQLiteDBs

Aliases == {Alias(a) : a \in AliasNames}

\* what a caller may pass where a database is expected
DbArgs == Descriptors \cup Aliases

\* the databases data is loaded into
TargetArgs ==
    Aliases
    \cup {PostgreSQLDB(u, None, h, None, Some("test")) :
             u \in {None, Some("root")}, h \in {None, Some("localhost")}}
    \cup {PostgreSQLDB(Some("my user"), Some("p'w"), Some("a b"), Some(5432), None),
          MysqlDB(None, None, Some("localhost"), None, Some("test"), FALSE),
          SQLServerDB(None, None, Some("localhost"), Some("test")),
          SQLiteDB("missing.db")}

Timezones == {None, Some(""), Some("America/New_York")}

Tables == {"foo", "public.target_table"}

Delimiters == {None, Some(","), Some("\t")}

Quotes == {None, Some("\""), Some("''")}

NullStrings == {None, Some(""), Some("NULL")}

-----------------------------------------------------------------------------
(* The callers: one action per public function, each applied once to inputs  *)
(* drawn from the sets above.                                               *)

NoCall == [op |-> "none"]

NoResult == [ok |-> FALSE, error |-> "none"]

NoRun == [ran |-> FALSE]

Init ==
    /\ pc = "idle"
    /\ call = NoCall
    /\ result = NoResult
    /\ run = NoRun

QueryCommand ==
    /\ pc = "idle"
    /\ \E d \in DbArgs, tz \in Timezones, e \in BOOLEAN :
          /\ call' = [op |-> "query_command", db |-> d, timezone |-> tz,
                      echo_queries |-> e]
          /\ result' = query_command(d, tz, e)
    /\ pc' = "returned"
    /\ UNCHANGED run

CopyToStdoutCommand ==
    /\ pc = "idle"
    /\ \E d \in DbArgs :
          /\ call' = [op |-> "copy_to_stdout_command", db |-> d]
          /\ result' = copy_to_stdout_command(d)
    /\ pc' = "returned"
    /\ UNCHANGED run

CopyFromStdinCommand ==
    /\ pc = "idle"
    /\ \E d \in TargetArgs, t \in Tables, csv \in BOOLEAN, hdr \in BOOLEAN,
          dl \in Delimiters, qc \in Quotes, nv \in NullStrings, tz \in Timezones :
          /\ call' = [op |-> "copy_from_stdin_command", db |-> d,
                      target_table |-> t, csv_format |-> csv, skip_header |-> hdr,
                      delimiter_char |-> dl, quote_char |-> qc,
                      null_value_string |-> nv, timezone |-> tz]
          /\ result' = copy_from_stdin_command(d, t, csv, hdr, dl, qc, nv, tz)
    /\ pc' = "returned"
    /\ UNCHANGED run

CopyCommand ==
    /\ pc = "idle"
    /\ \E s \in DbArgs, d \in TargetArgs, t \in Tables, tz \in Timezones :
          /\ call' = [op |-> "copy_command", source_db |-> s, target_db |-> d,
                      target_table |-> t, timezone |-> tz]
          /\ result' = copy_command(s, d, t, tz)
    /\ pc' = "returned"
    /\ UNCHANGED run

\* the caller runs the command query_command returned for a SQLite database,
\* the database file existing or not
RunSQLiteCommand ==
    /\ pc = "returned"
    /\ call.op = "query_command"
    /\ result.ok
    /\ StartsWith(result.value, "(test -f ")
    /\ \E f \in SUBSET Files :
          run' = Execute(result.value, f)
    /\ pc' = "executed"
    /\ UNCHANGED <<call, result>>

Next ==
    \/ QueryCommand
    \/ RunSQLiteCommand
    \/ CopyToStdoutCommand
    \/ CopyFromStdinCommand
    \/ CopyCommand

Spec == Init /\ [][Next]_vars

-----------------------------------------------------------------------------
(* Properties *)

\* an argument that denotes a descriptor: a descriptor or a registered alias
Known(d) == d.kind # "str" \/ d.alias \in DOMAIN Registry

\* the descriptor an argument denotes
Resolved(d) == IF d.kind = "str" THEN Registry[d.alias] ELSE d

Called(op) == pc # "idle" /\ call.op = op

\* the separator copy_command puts between the dump and the load command
PipeText == " \\\n  | "

C2_AliasAsResolved ==
    (Called("copy_command") /\ Known(call.source_db) /\ Known(call.target_db))
    => result = copy_command(Resolved(call.source_db), Resolved(call.target_db),
                             call.target_table, call.timezone)

\* C3: for a MySQL database, query_command returns a command that contains
\* --default-character-set=utf8mb4, contains --host=<host> when a host is set
\* and ends with the database name when one is set.
C3_MysqlCharset ==
    (Called("query_command") /\ Known(call.db) /\ Resolved(call.db).kind = "MysqlDB")
    => LET d == Resolved(call.db)
       IN  /\ result.ok
           /\ Contains(result.value, "--default-character-set=utf8mb4")
           /\ Truthy(d.host) => Contains(result.value, "--host=" \o d.host[1])
           /\ Truthy(d.database) => EndsWith(result.value, d.database[1])

\* the simple commands started by the run whose first word is name
Started(name) ==
    {k \in 1..Len(run.invoked) : run.invoked[k].argv[1] = name}

\* the database file of the SQLite command that was run
RunFile == Resolved(call.db).file_name

\* C4 as stated: when the database file does not exist, running the command
\* of query_command for a SQLite database prints the 'not found' diagnostic
\* on standard error and does not start sqlite3; sqlite3 is started only
\* when the existence test succeeds.
C4_ClientNotInvoked ==
    pc = "executed"
    => /\ RunFile \notin run.files
          => /\ \E k \in Started("echo") : run.invoked[k].stderr
             /\ Started("sqlite3") = {}
       /\ Started("sqlite3") # {} => RunFile \in run.files

\* C4, amended: running the command tests the file's existence first; when
\* the file does not exist the 'not found' diagnostic goes to standard error
\* and cat is not started, so the client receives no query text; when it
\* exists cat is started and no diagnostic is printed; sqlite3 -bail is
\* started on the file in both cases, as the last stage of the pipeline.
C4_DiagnosticInsteadOfInput ==
    pc = "executed"
    => /\ ~run.syntax_error
       /\ run.invoked[1].argv = <<"test", "-f", RunFile>>
       /\ run.invoked[Len(run.invoked)] =
              [argv |-> <<"sqlite3", "-bail", RunFile>>, stderr |-> FALSE]
       /\ RunFile \notin run.files
          => /\ Started("cat") = {}
             /\ \E k \in Started("echo") :
                   run.invoked[k] = [argv |-> <<"echo", RunFile, "not", "found">>,
                                     stderr |-> TRUE]
       /\ RunFile \in run.files
          => /\ Started("cat") # {}
             /\ Started("echo") = {}

C4_Witness ==
    /\ pc = "executed"
    /\ call.db = SQLiteDB("missing.db")
    /\ "missing.db" \notin run.files
    /\ \E k \in Started("echo") : run.invoked[k].stderr
    /\ Started("sqlite3") # {}

\* the descriptor's values that query_command writes into the command text
Interpolated(d) ==
    CASE d.kind = "SQLiteDB" -> {d.file_name}
      [] d.kind = "SQLServerDB" ->
            {x[1] : x \in {y \in {d.user, d.password, d.host, d.database} : Truthy(y)}}
      [] OTHER ->
            {x[1] : x \in {y \in {d.user, d.password, d.host, d.database} : Truthy(y)}}
            \cup (IF TruthyInt(d.port) THEN {ToString(d.port[1])} ELSE {})

\* C5: in every command of query_command, each value taken from the
\* descriptor is shell-escaped: the shell reads the command without an open
\* quote, and each value arrives whole, as the end of one word.
C5_ValuesEscaped ==
    (Called("query_command") /\ result.ok)
    => LET lx == ShellTokens(result.value)
       IN  /\ ~lx.open
           /\ \A v \in Interpolated(Resolved(call.db)) :
                 \E k \in 1..Len(lx.tokens) :
                    ~lx.tokens[k].op /\ EndsWith(lx.tokens[k].v, v)

\* C6: copy_command with two resolved descriptors whose target is not a
\* PostgreSQL database (every pair but the four registered ones) raises the
\* error of copy_command's base implementation and returns no string.
C6_UnsupportedPair ==
    (Called("copy_command") /\ call.source_db.kind # "str"
       /\ call.target_db.kind \notin {"str", "PostgreSQLDB"})
    => result = Raise("NotImplementedError: copy_command")

C6_Witness ==
    /\ Called("copy_command")
    /\ call.source_db.kind = "SQLiteDB"
    /\ call.target_db.kind = "MysqlDB"
    /\ ~result.ok

\* C7: copy_from_stdin_command returns a command only for a PostgreSQL
\* database; for a MySQL, SQLServer or SQLite database (given as descriptor
\* or alias) it raises the error of its base implementation.
C7_OnlyPostgreSQL ==
    (Called("copy_from_stdin_command") /\ Known(call.db))
    => /\ result.ok => Resolved(call.db).kind = "PostgreSQLDB"
       /\ Resolved(call.db).kind # "PostgreSQLDB"
          => result = Raise("NotImplementedError: copy_from_stdin_command")

C7_Witness ==
    /\ Called("copy_from_stdin_command")
    /\ call.db.kind = "MysqlDB"
    /\ ~result.ok

\* C8: for a PostgreSQL database, query_command emits PGPASSWORD=, --username=,
\* --host= and --port= iff the field is set (not None, not empty, not 0) and
\* --echo-all iff echo_queries; no flag is emitted with an empty value, and
\* the command ends with the database name when one is set.
C8_OptionalParts ==
    (Called("query_command") /\ Known(call.db)
       /\ Resolved(call.db).kind = "PostgreSQLDB")
    => LET d == Resolved(call.db)
           c == result.value
       IN  /\ result.ok
           /\ Contains(c, "PGPASSWORD=") <=> Truthy(d.password)
           /\ Contains(c, "--username=") <=> Truthy(d.user)
           /\ Contains(c, "--host=") <=> Truthy(d.host)
           /\ Contains(c, "--port=") <=> TruthyInt(d.port)
           /\ Contains(c, "--echo-all") <=> call.echo_queries
           /\ \A f \in {"PGPASSWORD= ", "--username= ", "--host= ", "--port= "} :
                 ~Contains(c, f)
           /\ Truthy(d.password) => Contains(c, "PGPASSWORD=" \o d.password[1] \o " ")
           /\ Truthy(d.user) => Contains(c, " --username=" \o d.user[1])
           /\ Truthy(d.host) => Contains(c, " --host=" \o d.host[1])
           /\ TruthyInt(d.port) => Contains(c, " --port=" \o ToString(d.port[1]))
           /\ Truthy(d.database) => EndsWith(c, " " \o d.database[1])

C8_Witness ==
    /\ Called("query_command")
    /\ call.db = PostgreSQLDB(None, None, Some("localhost"), None, Some("test"))
    /\ result.ok
    /\ ~Contains(result.value, "--username")
    /\ Contains(result.value, "--host=localhost")
    /\ EndsWith(result.value, "test")

\* C9: for a SQLServer source descriptor and a PostgreSQL target descriptor,
\* copy_command returns the source's copy_to_stdout_command piped into the
\* target's query command with the statement COPY <target_table> FROM STDIN
\* WITH CSV HEADER and no other clause, whatever the table and the timezone.
C9_SQLServerCsvHeader ==
    (Called("copy_command") /\ call.source_db.kind = "SQLServerDB"
       /\ call.target_db.kind = "PostgreSQLDB")
    => /\ result.ok
       /\ result.value =
              copy_to_stdout_command(call.source_db).value \o PipeText
              \o query_command(call.target_db, call.timezone, TRUE).value
              \o " \\\n      --command=\"COPY " \o call.target_table
              \o " FROM STDIN WITH CSV HEADER\""

C9_Witness ==
    /\ Called("copy_command")
    /\ call.source_db.kind = "SQLServerDB"
    /\ call.target_db.kind = "PostgreSQLDB"
    /\ call.timezone = Some("America/New_York")
    /\ result.ok
    /\ EndsWith(result.value, " FROM STDIN WITH CSV HEADER\"")

\* the load command of a pipeline: what follows the dump command and the pipe
LoadSide ==
    LET dump == copy_to_stdout_command(call.source_db).value
    IN  SubSeq(result.value, Len(dump) + Len(PipeText) + 1, Len(result.value))

\* C10: in copy_command the timezone argument sets PGTZ of the load command
\* only: the load command starts with PGTZ=<timezone> when a timezone is
\* given and with PGTZ=<default> when it is not, and the dump command of a
\* PostgreSQL source starts with PGTZ=<default> whatever timezone is passed.
C10_TimezoneOnLoadSideOnly ==
    (Called("copy_command") /\ call.source_db.kind # "str"
       /\ call.target_db.kind = "PostgreSQLDB")
    => /\ result.ok
       /\ StartsWith(result.value,
                     copy_to_stdout_command(call.source_db).value \o PipeText)
       /\ StartsWith(LoadSide,
                     "PGTZ=" \o (IF Truthy(call.timezone) THEN call.timezone[1]
                                 ELSE default_timezone) \o " ")
       /\ call.source_db.kind = "PostgreSQLDB"
          => StartsWith(result.value, "PGTZ=" \o default_timezone \o " ")

C10_Witness ==
    /\ Called("copy_command")
    /\ call.source_db.kind = "PostgreSQLDB"
    /\ call.target_db.kind = "PostgreSQLDB"
    /\ call.timezone = Some("America/New_York")
    /\ result.ok
    /\ StartsWith(result.value, "PGTZ=Europe/Berlin ")
    /\ Contains(result.value, "  | PGTZ=America/New_York ")

====
